---- MODULE Spec2Model ----
(***************************************************************************)
(* Model of src/loader.rs: the Tiled map asset loader (TiledLoader::load)  *)
(* and the reconciliation system (process_loaded_maps) that turns a loaded *)
(* TiledMap into tile group entities and tile entities.                    *)
(*                                                                         *)
(* Conventions.  An Option is a sequence of length at most one: <<>> is    *)
(* None and <<v>> is Some(v).  A HashMap is a function whose domain is the *)
(* set of its keys.  Indices (tileset_index, layer_index, x, y) are        *)
(* 0-based as in the source; TLA+ sequences are 1-based, so tileset k is   *)
(* map.tilesets[k + 1].  Rendering metadata that the code copies into the  *)
(* bundles without branching on it (tile size, spacing, grid size, map     *)
(* type, flip flags, the x/y part of the transform) is not represented.    *)
(***************************************************************************)
EXTENDS Integers, Sequences, FiniteSets, TLC

\* ------------------------------------------------------------------ bounds
MaxAssets == 2
MaxInstances == 2
MaxBatch == 2
MaxTicks == 2
MaxReloadTicks == 3
MaxCells == 4
MaxTiles == 2
MaxTileId == 2

AssetIds == 1..MaxAssets

\* ------------------------------------------------------------- small helpers
None == <<>>
Some(v) == <<v>>

\* HashMap::insert
Put(f, k, v) == (k :> v) @@ f

\* HashMap::remove
Remove(f, k) == [q \in (DOMAIN f) \ {k} |-> f[q]] @@ <<>>

EmptyMap == [q \in {} |-> 0]

\* Op(x) with x evaluated once, before Op's body (call by value).
Bind(x, Op(_)) == CHOOSE r \in {Op(v) : v \in {x}} : TRUE

\* ---------------------------------------------------------------- documents


\* tiled::Map as far as the code reads it.  tilesets[k].image is the shared image
\* (Option); tilesets[k].tiles is the sequence of (tile id, Option image) in the order
\* tileset.tiles() yields them; layers[k].kind is "finite", "infinite" (a tile layer
\* that is not finite) or "object" (any non-tile layer).
Doc(w, h, tilesets, layers) ==
    [width |-> w, height |-> h, tilesets |-> tilesets, layers |-> layers]

SingleTileset(img) == [image |-> Some(img), tiles |-> <<>>]
CollectionTileset(tiles) == [image |-> None, tiles |-> tiles]
TileDef(id, image) == [id |-> id, image |-> image]

Cells(w, h) == (0..(w - 1)) \X (0..(h - 1))
FiniteLayer(cells) == [kind |-> "finite", cells |-> cells]
InfiniteLayer == [kind |-> "infinite", cells |-> EmptyMap]
ObjectLayer == [kind |-> "object", cells |-> EmptyMap]

\* FiniteTileLayer::get_tile / get_tile_data of the tiled crate: None outside the grid
\* and on an empty cell.
get_tile(layer_data, x, y) ==
    IF <<x, y>> \in DOMAIN layer_data.cells THEN layer_data.cells[<<x, y>>] ELSE None

\* ------------------------------------------------------------------- loader
Single(img) == [kind |-> "Single", images |-> <<img>>]
Vector(imgs) == [kind |-> "Vector", images |-> imgs]

\* Every tile gets offset 0: not the offset the code saves.
image_offset_zero(tile_images) == 0

\* The length of tile_images once the image is pushed: not the offset the code saves.
image_offset_after_push(tile_images) == Len(tile_images) + 1

\* The offset saved for a tile: the length of tile_images before its image is pushed.
image_offset(tile_images) == Len(tile_images)

\* The inner loop of load over tileset.tiles() (image collection tileset).
RECURSIVE LoadTileImages(_, _, _, _, _)
LoadTileImages(tileset_index, tiles, k, tile_images, tile_image_offsets_in) ==
    Bind(tile_image_offsets_in, LAMBDA tile_image_offsets :
        IF k > Len(tiles)
        THEN [tile_images |-> tile_images, tile_image_offsets |-> tile_image_offsets]
        ELSE LET tile == tiles[k] IN
             IF tile.image # None
             THEN LoadTileImages(tileset_index, tiles, k + 1,
                                 Append(tile_images, tile.image[1]),
                                 Put(tile_image_offsets, <<tileset_index, tile.id>>,
                                     image_offset(tile_images)))
             ELSE LoadTileImages(tileset_index, tiles, k + 1, tile_images,
                                 tile_image_offsets))

\* The loop of load over map.tilesets(); atlas_feature is the build's "atlas" feature.
RECURSIVE LoadTilesets(_, _, _, _, _)
LoadTilesets(map, atlas_feature, k, tilemap_textures, tile_image_offsets_in) ==
    Bind(tile_image_offsets_in, LAMBDA tile_image_offsets :
        IF k > Len(map.tilesets)
        THEN [map |-> map, tilemap_textures |-> tilemap_textures,
              tile_image_offsets |-> tile_image_offsets]
        ELSE LET tileset == map.tilesets[k]
                 tileset_index == k - 1
             IN  IF tileset.image = None
                 THEN IF atlas_feature
                      THEN LoadTilesets(map, atlas_feature, k + 1, tilemap_textures,
                                        tile_image_offsets)
                      ELSE LET r == LoadTileImages(tileset_index, tileset.tiles, 1, <<>>,
                                                   tile_image_offsets)
                           IN  LoadTilesets(map, atlas_feature, k + 1,
                                            Put(tilemap_textures, tileset_index,
                                                Vector(r.tile_images)),
                                            r.tile_image_offsets)
                 ELSE LoadTilesets(map, atlas_feature, k + 1,
                                   Put(tilemap_textures, tileset_index,
                                       Single(tileset.image[1])),
                                   tile_image_offsets))

\* What the loader is given: whether the byte read succeeds, whether the parser
\* accepts the bytes, and the tiled::Map it returns then.
LoadInput(read_ok, parse_ok, map) == [read_ok |-> read_ok, parse_ok |-> parse_ok, map |-> map]

\* A rejected document still yields an asset: not what the code does.
load_despite_parse_error(input, atlas_feature) ==
    IF ~input.read_ok THEN None
    ELSE Some(LoadTilesets(input.map, atlas_feature, 1, EmptyMap, EmptyMap))

\* TiledLoader::load: Result<TiledMap, TiledAssetLoaderError> as an Option of TiledMap
\* (None is Err(Io)).
load(input, atlas_feature) ==
    IF ~input.read_ok THEN None
    ELSE IF ~input.parse_ok THEN None
    ELSE Some(LoadTilesets(input.map, atlas_feature, 1, EmptyMap, EmptyMap))

\* -------------------------------------------------------------------- state
VARIABLES
    atlas,        \* whether the build has the "atlas" feature (fixed at start)
    maps,         \* Assets<TiledMap>: asset id -> Option TiledMap
    load_failed,  \* the asset ids whose last load returned Err
    map_events,   \* the AssetEvent<TiledMap>s not yet read by process_loaded_maps
    instances,    \* the entities with a TiledMapBundle, in query order:
                  \*   [tiled_map: asset id, storage: layer_index -> Entity, added: BOOLEAN]
    world,        \* the other entities alive: Entity -> its components
    next_entity,  \* the next Entity the allocator hands out
    panicked,     \* the system panicked (the app is gone)
    ticks,        \* the runs of process_loaded_maps that had something to read
    built_from,   \* history: per instance, the Option TiledMap of its last rebuild
    last_changed  \* history: the change set of the last completed run

vars == <<atlas, maps, load_failed, map_events, instances, world, next_entity,
          panicked, ticks, built_from, last_changed>>

\* --------------------------------------------------------- world and commands
Despawn(e) == [op |-> "despawn", entity |-> e]
Spawn(e, bundle) == [op |-> "spawn", entity |-> e, bundle |-> bundle]
Insert(e, bundle) == [op |-> "insert", entity |-> e, bundle |-> bundle]

TileBundle(pos, layer_entity, texture_index) ==
    [kind |-> "tile", position |-> pos, tilemap_id |-> layer_entity,
     texture_index |-> texture_index]

TilemapBundle(size, tile_storage, texture, layer_index) ==
    [kind |-> "tilemap", size |-> size, storage |-> tile_storage, texture |-> texture,
     layer_index |-> layer_index]

EmptyEntity == [kind |-> "empty"]

\* One deferred command applied to the world.  The tiles are spawned without a
\* parent, so despawn_recursive removes the one entity; on an entity already gone it
\* only logs.
ApplyCommand(w, c) ==
    CASE c.op = "despawn" -> Remove(w, c.entity)
      [] c.op = "spawn" -> Put(w, c.entity, c.bundle)
      [] c.op = "insert" -> Put(w, c.entity, c.bundle)

\* The commands lo..hi of the tick's queue applied in order (the queue is split in
\* halves to keep the evaluation shallow; the order of application is the queue's).
RECURSIVE ApplyRange(_, _, _, _)
ApplyRange(w_in, commands, lo, hi) ==
    Bind(w_in, LAMBDA w :
        IF lo > hi THEN w
        ELSE IF lo = hi THEN ApplyCommand(w, commands[lo])
        ELSE LET mid == (lo + hi) \div 2 IN
             ApplyRange(ApplyRange(w, commands, lo, mid), commands, mid + 1, hi))

\* The tick's command queue applied to the world.
ApplyCommands(w, commands) == ApplyRange(w, commands, 1, Len(commands))

\* tile_storage_query.get(layer_entity) is Ok: the entity is in the world the system
\* sees (commands of this run are not applied yet) and has a TileStorage.
HasTileStorage(w, e) == e \in DOMAIN w /\ w[e].kind = "tilemap"

\* TileStorage::iter().flatten(): the tiles of a storage in index order (y * width + x).
RECURSIVE StorageTiles(_, _, _)
StorageTiles(storage, size, k) ==
    IF k >= size[1] * size[2] THEN <<>>
    ELSE LET pos == <<k % size[1], k \div size[1]>> IN
         (IF pos \in DOMAIN storage THEN <<storage[pos]>> ELSE <<>>)
             \o StorageTiles(storage, size, k + 1)

\* ------------------------------------------------------ process_loaded_maps
\* The loop over map_events.read(): the change set as the code collects it.
RECURSIVE ReadEvents(_, _, _)
ReadEvents(events, k, changed_maps_in) ==
    Bind(changed_maps_in, LAMBDA changed_maps :
        IF k > Len(events) THEN changed_maps
        ELSE LET event == events[k] IN
             CASE event.type \in {"Added", "Modified"} ->
                      ReadEvents(events, k + 1, Append(changed_maps, event.id))
               [] event.type = "Removed" ->
                      ReadEvents(events, k + 1,
                                 SelectSeq(changed_maps,
                                           LAMBDA changed_handle : changed_handle = event.id))
               [] OTHER -> ReadEvents(events, k + 1, changed_maps))

\* The loop over new_maps: the handles of the instances added since the last run.
RECURSIVE PushNewMaps(_, _, _)
PushNewMaps(insts, k, changed_maps_in) ==
    Bind(changed_maps_in, LAMBDA changed_maps :
        IF k > Len(insts) THEN changed_maps
        ELSE PushNewMaps(insts, k + 1,
                         IF insts[k].added THEN Append(changed_maps, insts[k].tiled_map)
                         ELSE changed_maps))

\* The despawn of the tiles of one layer entity's storage.  Commands::entity panics
\* on an entity that does not exist.
RECURSIVE DespawnTiles(_, _, _, _)
DespawnTiles(w, tiles, k, ctx_in) ==
    Bind(ctx_in, LAMBDA ctx :
        IF ctx.panicked \/ k > Len(tiles) THEN ctx
        ELSE IF tiles[k] \notin DOMAIN w
             THEN [ctx EXCEPT !.panicked = TRUE]
             ELSE DespawnTiles(w, tiles, k + 1,
                               [ctx EXCEPT !.commands = Append(@, Despawn(tiles[k]))]))

\* The loop over layer_storage.storage.values(), here in key order; the layer entity
\* itself is not despawned.
RECURSIVE DespawnLayers(_, _, _, _)
DespawnLayers(w, storage, keys, ctx_in) ==
    Bind(ctx_in, LAMBDA ctx :
        IF ctx.panicked \/ keys = {} THEN ctx
        ELSE LET key == CHOOSE q \in keys : \A r \in keys : q <= r
                 layer_entity == storage[key]
             IN  DespawnLayers(w, storage, keys \ {key},
                     IF HasTileStorage(w, layer_entity)
                     THEN DespawnTiles(w, StorageTiles(w[layer_entity].storage,
                                                       w[layer_entity].size, 0), 1, ctx)
                     ELSE ctx))

\* The row kept as in the document: not the row the code computes.
mapped_y_not_inverted(height, y) == y

\* Transform TMX coords into bevy coords.
mapped_y(height, y) == height - 1 - y

\* Every tile passes for a tile of the tileset being built: not the test the code makes.
other_tileset_never(tileset_index, layer_tile) == FALSE

\* The cell's tile belongs to another tileset than the one being built.
other_tileset(tileset_index, layer_tile) == tileset_index # layer_tile.tileset_index

\* The loops over x and y (x outer, y inner; cell k is x = k \div height,
\* y = k % height) of one (tileset, layer) pair.  acc is the context and the
\* tile_storage being filled.
RECURSIVE SpawnTiles(_, _, _, _, _, _, _)
SpawnTiles(tiled_map, tileset_index, tilemap_texture, layer_data, layer_entity, k, acc_in) ==
    Bind(acc_in, LAMBDA acc :
        IF acc.ctx.panicked \/ k >= tiled_map.map.width * tiled_map.map.height THEN acc
        ELSE LET x == k \div tiled_map.map.height
                 y == k % tiled_map.map.height
                 mapped_x == x
                 layer_tile == get_tile(layer_data, mapped_x,
                                        mapped_y(tiled_map.map.height, y))
                 next(a) == SpawnTiles(tiled_map, tileset_index, tilemap_texture, layer_data,
                                       layer_entity, k + 1, a)
             IN  IF layer_tile = None THEN next(acc)
                 ELSE IF other_tileset(tileset_index, layer_tile[1]) THEN next(acc)
                 ELSE IF tilemap_texture.kind = "Vector"
                         /\ <<tileset_index, layer_tile[1].id>>
                                \notin DOMAIN tiled_map.tile_image_offsets
                 THEN [acc EXCEPT !.ctx.panicked = TRUE]
                 ELSE LET texture_index ==
                              IF tilemap_texture.kind = "Single" THEN layer_tile[1].id
                              ELSE tiled_map.tile_image_offsets[
                                       <<tileset_index, layer_tile[1].id>>]
                          tile_pos == <<x, y>>
                          tile_entity == acc.ctx.next_entity
                      IN  next([ctx |-> [acc.ctx EXCEPT
                                            !.next_entity = @ + 1,
                                            !.commands = Append(@,
                                                Spawn(tile_entity,
                                                      TileBundle(tile_pos, layer_entity,
                                                                 texture_index)))],
                                tile_storage |-> Put(acc.tile_storage, tile_pos, tile_entity)]))

\* The loop over map.layers() for one tileset.
RECURSIVE BuildLayers(_, _, _, _, _)
BuildLayers(tiled_map, tileset_index, tilemap_texture, k, ctx_in) ==
    Bind(ctx_in, LAMBDA ctx :
        IF ctx.panicked \/ k > Len(tiled_map.map.layers) THEN ctx
        ELSE LET layer == tiled_map.map.layers[k]
                 layer_index == k - 1
             IN  IF layer.kind # "finite"
                 THEN BuildLayers(tiled_map, tileset_index, tilemap_texture, k + 1, ctx)
                 ELSE LET map_size == <<tiled_map.map.width, tiled_map.map.height>>
                          layer_entity == ctx.next_entity
                          r == SpawnTiles(tiled_map, tileset_index, tilemap_texture, layer,
                                          layer_entity, 0,
                                          [ctx |-> [ctx EXCEPT
                                                       !.next_entity = @ + 1,
                                                       !.commands = Append(@,
                                                           Spawn(layer_entity, EmptyEntity))],
                                           tile_storage |-> EmptyMap])
                      IN  IF r.ctx.panicked THEN r.ctx
                          ELSE BuildLayers(tiled_map, tileset_index, tilemap_texture, k + 1,
                                   [r.ctx EXCEPT
                                       !.commands = Append(@,
                                           Insert(layer_entity,
                                                  TilemapBundle(map_size, r.tile_storage,
                                                                tilemap_texture, layer_index))),
                                       !.storage = Put(@, layer_index, layer_entity)]))

\* The loop over map.tilesets(): a tileset without a texture is skipped.
RECURSIVE BuildTilesets(_, _, _)
BuildTilesets(tiled_map, k, ctx_in) ==
    Bind(ctx_in, LAMBDA ctx :
        IF ctx.panicked \/ k > Len(tiled_map.map.tilesets) THEN ctx
        ELSE LET tileset_index == k - 1 IN
             IF tileset_index \notin DOMAIN tiled_map.tilemap_textures
             THEN BuildTilesets(tiled_map, k + 1, ctx)
             ELSE BuildTilesets(tiled_map, k + 1,
                      BuildLayers(tiled_map, tileset_index,
                                  tiled_map.tilemap_textures[tileset_index], 1, ctx)))

\* A group is spawned and registered even when the asset does not resolve: not what
\* the code does.
Rebuild_without_asset(w, assets, handle, ctx_in) ==
    IF assets[handle] = None
    THEN [ctx_in EXCEPT !.commands = Append(@, Spawn(ctx_in.next_entity, EmptyEntity)),
                        !.storage = Put(@, 0, ctx_in.next_entity),
                        !.next_entity = @ + 1]
    ELSE BuildTilesets(assets[handle][1], 1,
                       DespawnLayers(w, ctx_in.storage, DOMAIN ctx_in.storage, ctx_in))

\* The body of the inner loop for one instance whose handle is the changed map:
\* nothing when the asset does not resolve, else despawn and rebuild.
Rebuild(w, assets, handle, ctx_in) ==
    Bind(ctx_in, LAMBDA ctx :
        IF assets[handle] = None THEN ctx
        ELSE BuildTilesets(assets[handle][1], 1,
                           DespawnLayers(w, ctx.storage, DOMAIN ctx.storage, ctx)))

\* Every instance passes for one of the changed map: not the test the code makes.
other_map_never(map_handle, changed_map) == FALSE

\* "only deal with currently changed map": the instance references another asset.
other_map(map_handle, changed_map) == map_handle # changed_map

\* The loop over map_query for one changed map.  st is the registries of all
\* instances together with the commands, the allocator and the panic flag.
RECURSIVE VisitInstances(_, _, _, _, _, _)
VisitInstances(w, assets, insts, changed_map, k, st_in) ==
    Bind(st_in, LAMBDA st :
        IF st.panicked \/ k > Len(insts) THEN st
        ELSE IF other_map(insts[k].tiled_map, changed_map)
             THEN VisitInstances(w, assets, insts, changed_map, k + 1, st)
             ELSE LET r == Rebuild(w, assets, insts[k].tiled_map,
                                   [storage |-> st.storages[k], commands |-> st.commands,
                                    next_entity |-> st.next_entity, panicked |-> FALSE])
                  IN  VisitInstances(w, assets, insts, changed_map, k + 1,
                          [storages |-> [st.storages EXCEPT ![k] = r.storage],
                           commands |-> r.commands, next_entity |-> r.next_entity,
                           panicked |-> r.panicked]))

\* The loop over changed_maps.
RECURSIVE VisitChanged(_, _, _, _, _, _)
VisitChanged(w, assets, insts, changed_maps, k, st_in) ==
    Bind(st_in, LAMBDA st :
        IF st.panicked \/ k > Len(changed_maps) THEN st
        ELSE VisitChanged(w, assets, insts, changed_maps, k + 1,
                          VisitInstances(w, assets, insts, changed_maps[k], 1, st)))

\* The change set of one run: the events read, then the new instances.
ChangedMaps(events, insts) == PushNewMaps(insts, 1, ReadEvents(events, 1, <<>>))

\* One run of process_loaded_maps on the given state: the registries, the command
\* queue, the allocator and whether it panicked.
process_loaded_maps(w, assets, events, insts, first_entity) ==
    VisitChanged(w, assets, insts, ChangedMaps(events, insts), 1,
                 [storages |-> [k \in 1..Len(insts) |-> insts[k].storage],
                  commands |-> <<>>, next_entity |-> first_entity, panicked |-> FALSE])

\* ------------------------------------------------------------------ inputs
LayerTile(ts, id) == [tileset_index |-> ts, id |-> id]
Grid(w, h, tiles) == [c \in Cells(w, h) |-> IF c \in DOMAIN tiles THEN Some(tiles[c]) ELSE None]

\* The documents the environment loads under Spec.  DocOne: an object layer, then
\* one finite layer on one tileset.  DocRich: two tilesets and two finite layers, the
\* first layer drawing on both tilesets, the second on the second tileset only.
\* DocLayerGone: DocRich with its second layer no longer a finite tile layer.
DocOne ==
    Doc(1, 2, <<SingleTileset("a")>>,
        <<ObjectLayer, FiniteLayer(Grid(1, 2, <<0, 0>> :> LayerTile(0, 1)))>>)

DocRich ==
    Doc(1, 2, <<SingleTileset("a"), SingleTileset("b")>>,
        <<FiniteLayer(Grid(1, 2, <<0, 0>> :> LayerTile(0, 0) @@ <<0, 1>> :> LayerTile(1, 0))),
          FiniteLayer(Grid(1, 2, <<0, 1>> :> LayerTile(1, 1)))>>)

DocLayerGone ==
    Doc(1, 2, <<SingleTileset("a"), SingleTileset("b")>>,
        <<FiniteLayer(Grid(1, 2, <<0, 0>> :> LayerTile(0, 0) @@ <<0, 1>> :> LayerTile(1, 0))),
          InfiniteLayer>>)

Docs == {DocOne, DocRich, DocLayerGone}

\* The documents of SpecDocs.  GridDocs: every grid of up to MaxCells cells of one
\* finite layer over a single-image tileset and an image collection tileset.
GridTilesets == <<SingleTileset("a"), CollectionTileset(<<TileDef(1, Some("p"))>>)>>
GridCells == {None, Some(LayerTile(0, 0)), Some(LayerTile(1, 1))}

GridDocs ==
    UNION {{Doc(wh[1], wh[2], GridTilesets, <<FiniteLayer(cells)>>) :
                cells \in [Cells(wh[1], wh[2]) -> GridCells]} :
           wh \in {c \in (1..MaxCells) \X (1..MaxCells) : c[1] * c[2] <= MaxCells}}

\* TilesetDocs: an image collection tileset of up to MaxTiles tiles with distinct ids
\* in any tiles() order, each with or without an image, after a single-image tileset
\* or before another collection; one cell that may use any tile id of that
\* tileset.
TileDefs == {TileDef(id, image) : id \in 0..MaxTileId, image \in {None, Some("p"), Some("q")}}

TileSeqs ==
    UNION {{t \in [1..n -> TileDefs] :
                \A i, j \in 1..n : i # j => t[i].id # t[j].id} : n \in 0..MaxTiles}

TilesetLists ==
    UNION {{<<SingleTileset("a"), CollectionTileset(t)>>,
            <<CollectionTileset(t), CollectionTileset(<<TileDef(0, Some("r"))>>)>>} :
           t \in TileSeqs}

TilesetDocs ==
    UNION {{Doc(1, 1, tilesets, <<FiniteLayer([c \in Cells(1, 1) |-> cell])>>) :
                cell \in {None} \cup {Some(LayerTile(IF tilesets[1].image = None THEN 0 ELSE 1,
                                                        id)) : id \in 0..MaxTileId}} :
           tilesets \in TilesetLists}

\* The loader's inputs over a set of documents: bytes that parse to one of the
\* documents, a failed byte read, or bytes the parser rejects.
OkInputs(D) == {LoadInput(TRUE, TRUE, d) : d \in D}
FailingInputs == {LoadInput(FALSE, FALSE, DocOne), LoadInput(TRUE, FALSE, DocOne)}

\* The inputs of Spec and SpecReload, and those of SpecDocs.
ReloadInputs == OkInputs(Docs)
DocInputs == OkInputs(GridDocs \cup TilesetDocs) \cup FailingInputs

\* ----------------------------------------------------------------- actions
Init ==
    /\ atlas = FALSE
    /\ maps = [id \in AssetIds |-> None]
    /\ load_failed = {}
    /\ map_events = <<>>
    /\ instances = <<>>
    /\ world = EmptyMap
    /\ next_entity = 0
    /\ panicked = FALSE
    /\ ticks = 0
    /\ built_from = <<>>
    /\ last_changed = <<>>

Event(type, id) == [type |-> type, id |-> id]

\* The asset server finishes a load (or reload) of asset id: load runs on the input;
\* Ok stores the asset and sends Added (first version) or Modified, Err stores nothing
\* and sends nothing.
FinishLoad(id, input) ==
    /\ ~panicked
    /\ Len(map_events) < MaxBatch
    /\ LET r == load(input, atlas) IN
       IF r = None
       THEN /\ load_failed' = load_failed \cup {id}
            /\ UNCHANGED <<maps, map_events>>
       ELSE /\ maps' = [maps EXCEPT ![id] = r]
            /\ map_events' = Append(map_events,
                                    Event(IF maps[id] = None THEN "Added" ELSE "Modified", id))
            /\ load_failed' = load_failed \ {id}
    /\ UNCHANGED <<atlas, instances, world, next_entity, panicked, ticks, built_from,
                   last_changed>>

\* The asset is removed from Assets<TiledMap>: Removed is sent.
RemoveAsset(id) ==
    /\ ~panicked
    /\ Len(map_events) < MaxBatch
    /\ maps[id] # None
    /\ maps' = [maps EXCEPT ![id] = None]
    /\ map_events' = Append(map_events, Event("Removed", id))
    /\ UNCHANGED <<atlas, load_failed, instances, world, next_entity, panicked, ticks,
                   built_from, last_changed>>

\* An event of another kind (LoadedWithDependencies, Unused) for a stored asset.
OtherEvent(id) ==
    /\ ~panicked
    /\ Len(map_events) < MaxBatch
    /\ maps[id] # None
    /\ map_events' = Append(map_events, Event("LoadedWithDependencies", id))
    /\ UNCHANGED <<atlas, maps, load_failed, instances, world, next_entity, panicked, ticks,
                   built_from, last_changed>>

\* A TiledMapBundle is spawned with a handle to asset id and a default (empty)
\* TiledLayersStorage.
SpawnInstance(id) ==
    /\ ~panicked
    /\ Len(instances) < MaxInstances
    /\ instances' = Append(instances, [tiled_map |-> id, storage |-> EmptyMap, added |-> TRUE])
    /\ built_from' = Append(built_from, None)
    /\ UNCHANGED <<atlas, maps, load_failed, map_events, world, next_entity, panicked, ticks,
                   last_changed>>

\* What the run of process_loaded_maps in the current state yields.
Run == process_loaded_maps(world, maps, map_events, instances, next_entity)

\* Instance k is rebuilt by the run in the current state: its asset identity is in
\* the change set and the asset resolves.
Rebuilt(k) ==
    /\ \E i \in 1..Len(ChangedMaps(map_events, instances)) :
           ChangedMaps(map_events, instances)[i] = instances[k].tiled_map
    /\ maps[instances[k].tiled_map] # None

\* One scheduler tick with something to read: process_loaded_maps runs to completion
\* and its commands are applied; a panic ends the app.
Tick(limit) ==
    /\ ~panicked
    /\ ticks < limit
    /\ map_events # <<>> \/ \E k \in 1..Len(instances) : instances[k].added
    /\ \E r \in {Run} :
         IF r.panicked
         THEN /\ panicked' = TRUE
              /\ UNCHANGED <<maps, load_failed, map_events, instances, world,
                             next_entity, ticks, built_from, last_changed>>
         ELSE /\ instances' = [k \in 1..Len(instances) |->
                                  [instances[k] EXCEPT !.storage = r.storages[k],
                                                       !.added = FALSE]]
              /\ world' = ApplyCommands(world, r.commands)
              /\ next_entity' = r.next_entity
              /\ map_events' = <<>>
              /\ ticks' = ticks + 1
              /\ built_from' = [k \in 1..Len(instances) |->
                                   IF Rebuilt(k) THEN maps[instances[k].tiled_map]
                                   ELSE built_from[k]]
              /\ last_changed' = ChangedMaps(map_events, instances)
              /\ UNCHANGED <<maps, load_failed, panicked>>
    /\ UNCHANGED atlas

\* The reconciliation under every interleaving of loads, reloads, removals and new
\* instances, over the documents Docs.
Next ==
    \/ \E id \in AssetIds, input \in ReloadInputs : FinishLoad(id, input)
    \/ \E id \in AssetIds : RemoveAsset(id)
    \/ \E id \in AssetIds : SpawnInstance(id)
    \/ Tick(MaxTicks)

Spec == Init /\ [][Next]_vars

\* One instance of one asset that is loaded, reloaded and removed: longer runs.
NextReload ==
    \/ \E input \in ReloadInputs : FinishLoad(1, input)
    \/ RemoveAsset(1)
    \/ instances = <<>> /\ SpawnInstance(1)
    \/ Tick(MaxReloadTicks)

SpecReload == Init /\ [][NextReload]_vars

\* One asset loaded once from any document of GridDocs or TilesetDocs, possibly
\* after failed loads, in a build with or without the atlas feature.
InitDocs ==
    /\ atlas \in BOOLEAN
    /\ maps = [id \in AssetIds |-> None]
    /\ load_failed = {}
    /\ map_events = <<>>
    /\ instances = <<>>
    /\ world = EmptyMap
    /\ next_entity = 0
    /\ panicked = FALSE
    /\ ticks = 0
    /\ built_from = <<>>
    /\ last_changed = <<>>

NextDocs ==
    \/ maps[1] = None /\ \E input \in DocInputs : FinishLoad(1, input)
    \/ OtherEvent(1)
    \/ instances = <<>> /\ SpawnInstance(1)
    \/ Tick(MaxTicks)

SpecDocs == InitDocs /\ [][NextDocs]_vars

\* ------------------------------------------------------------- properties
\* What the formulas below read off a state.
Tiles(w) == {e \in DOMAIN w : w[e].kind = "tile"}
Tilemaps(w) == {e \in DOMAIN w : w[e].kind = "tilemap"}
InstanceIdx == 1..Len(instances)
Handle(k) == instances[k].tiled_map
Built(k) == DOMAIN instances[k].storage # {}
HasEvent(type, id) == \E i \in 1..Len(map_events) : map_events[i] = Event(type, id)

\* A step that is a completed run of process_loaded_maps with its commands applied.
TickStep == ticks' = ticks + 1

\* The entities the registry of instance k holds: the layer entities and the tiles in
\* their storages.
RegistryEntities(k) ==
    LET roots == {instances[k].storage[key] : key \in DOMAIN instances[k].storage} IN
    roots \cup UNION {{world[g].storage[pos] : pos \in DOMAIN world[g].storage} :
                      g \in {r \in roots : HasTileStorage(world, r)}}

\* The occupied cells of layer_index (a finite layer) of tiled_map that belong to
\* tileset_index.
MatchingCells(tiled_map, layer_index, tileset_index) ==
    {c \in DOMAIN tiled_map.map.layers[layer_index + 1].cells :
        /\ tiled_map.map.layers[layer_index + 1].cells[c] # None
        /\ tiled_map.map.layers[layer_index + 1].cells[c][1].tileset_index = tileset_index}

FiniteLayers(tiled_map) ==
    {li \in 0..(Len(tiled_map.map.layers) - 1) : tiled_map.map.layers[li + 1].kind = "finite"}

\* The (layer, tileset) pairs of tiled_map: finite layers and tilesets with a texture.
Pairs(tiled_map) == FiniteLayers(tiled_map) \X DOMAIN tiled_map.tilemap_textures

\* C8 (coordinate transform): once the asset is loaded, every tile entity alive sits
\* at <<x, height - 1 - y>> for an occupied document cell <<x, y>> of its group's
\* layer and tileset, and for every group a registry holds, every occupied document
\* cell <<x, y>> of its layer and tileset has its tile entity at <<x, height - 1 - y>>.
C8_CoordinateTransform ==
    maps[1] # None =>
        LET tiled_map == maps[1][1]
            height == tiled_map.map.height
            Matches(g, c) ==
                LET cell == get_tile(tiled_map.map.layers[world[g].layer_index + 1],
                                     c[1], c[2])
                IN  /\ cell # None
                    /\ cell[1].tileset_index \in DOMAIN tiled_map.tilemap_textures
                    /\ tiled_map.tilemap_textures[cell[1].tileset_index] = world[g].texture
        IN  /\ \A t \in Tiles(world) :
                   /\ world[t].tilemap_id \in Tilemaps(world)
                   /\ Matches(world[t].tilemap_id,
                              <<world[t].position[1], height - 1 - world[t].position[2]>>)
            /\ \A g \in Tilemaps(world) :
                   \A c \in Cells(tiled_map.map.width, height) :
                       Matches(g, c) =>
                           LET pos == <<c[1], height - 1 - c[2]>> IN
                           /\ pos \in DOMAIN world[g].storage
                           /\ world[g].storage[pos] \in Tiles(world)
                           /\ world[world[g].storage[pos]].position = pos
                           /\ world[world[g].storage[pos]].tilemap_id = g

\* A map of height 3 whose document cell <<0, 0>> is occupied and <<0, 2>> is not, with
\* a tile entity at <<0, 2>>.
C8_Witness ==
    /\ maps[1] # None
    /\ maps[1][1].map.height = 3
    /\ get_tile(maps[1][1].map.layers[1], 0, 0) # None
    /\ get_tile(maps[1][1].map.layers[1], 0, 2) = None
    /\ \E t \in Tiles(world) : world[t].position = <<0, 2>>

\* C10 (Vector offsets): in a build without the atlas feature, for every image
\* collection tileset of a loaded asset, a tile has an offset entry exactly when it
\* carries an image, the entry is the number of images pushed before it, the entries
\* of the tileset are exactly 0..n-1, and the Vector holds the tile's image at its
\* offset; the table has no other entries.
C10_VectorOffsets ==
    \A id \in AssetIds : (~atlas /\ maps[id] # None) =>
        LET tiled_map == maps[id][1]
            offsets == tiled_map.tile_image_offsets
            Collections == {ts \in 0..(Len(tiled_map.map.tilesets) - 1) :
                                tiled_map.map.tilesets[ts + 1].image = None}
        IN  /\ \A ts \in Collections :
                   LET tiles == tiled_map.map.tilesets[ts + 1].tiles
                       with_image == {i \in 1..Len(tiles) : tiles[i].image # None}
                       images == tiled_map.tilemap_textures[ts].images
                   IN  /\ tiled_map.tilemap_textures[ts].kind = "Vector"
                       /\ Len(images) = Cardinality(with_image)
                       /\ \A i \in 1..Len(tiles) :
                              (<<ts, tiles[i].id>> \in DOMAIN offsets) <=> (i \in with_image)
                       /\ \A i \in with_image :
                              /\ offsets[<<ts, tiles[i].id>>]
                                     = Cardinality({j \in with_image : j < i})
                              /\ images[offsets[<<ts, tiles[i].id>>] + 1] = tiles[i].image[1]
                       /\ {offsets[<<ts, tiles[i].id>>] : i \in with_image}
                              = 0..(Cardinality(with_image) - 1)
            /\ \A key \in DOMAIN offsets :
                   /\ key[1] \in Collections
                   /\ \E i \in 1..Len(tiled_map.map.tilesets[key[1] + 1].tiles) :
                          /\ tiled_map.map.tilesets[key[1] + 1].tiles[i].id = key[2]
                          /\ tiled_map.map.tilesets[key[1] + 1].tiles[i].image # None

\* A loaded asset whose second tileset is an image collection that yields tile 2
\* before tile 0, both with images: tile 2 has offset 0 and tile 0 has offset 1.
C10_Witness ==
    /\ ~atlas
    /\ maps[1] # None
    /\ Len(maps[1][1].map.tilesets) = 2
    /\ maps[1][1].map.tilesets[2].tiles = <<TileDef(2, Some("p")), TileDef(0, Some("q"))>>
    /\ maps[1][1].tile_image_offsets = (<<1, 2>> :> 0 @@ <<1, 0>> :> 1)
    /\ maps[1][1].tilemap_textures[1] = Vector(<<"p", "q">>)

\* The change set of the run in the current state names no asset identity twice.
NoRepeatedChange ==
    LET changed_maps == ChangedMaps(map_events, instances) IN
    \A i, j \in 1..Len(changed_maps) : changed_maps[i] = changed_maps[j] => i = j

\* C1 (removal precedence): when a tick's batch holds a Modified and then a Removed
\* event for the asset identity a built instance references, the instance's
\* registry is empty at the end of that tick.
C1_RemovalPrecedence ==
    [][TickStep =>
         \A k \in InstanceIdx :
             (/\ Built(k)
              /\ \E i, j \in 1..Len(map_events) :
                     /\ i < j
                     /\ map_events[i] = Event("Modified", Handle(k))
                     /\ map_events[j] = Event("Removed", Handle(k)))
             => DOMAIN instances'[k].storage = {}]_vars

\* C2 (nothing survives a removal): when a tick's batch holds a Removed event for the
\* asset identity of a built instance and the asset no longer resolves, no layer
\* entity of the instance's registry and no tile in their storages is alive once the
\* tick's commands are applied.
C2_NoEntityAfterRemoved ==
    [][TickStep =>
         \A k \in InstanceIdx :
             (/\ Built(k)
              /\ HasEvent("Removed", Handle(k))
              /\ maps[Handle(k)] = None)
             => RegistryEntities(k) \cap DOMAIN world' = {}]_vars

\* C3 (teardown on rebuild): when an instance is rebuilt, every layer entity its
\* registry held before the rebuild and every tile in their storages is gone once the
\* tick's commands are applied.
C3_RebuildDespawnsPrevious ==
    [][TickStep =>
         \A k \in InstanceIdx :
             Rebuilt(k) => RegistryEntities(k) \cap DOMAIN world' = {}]_vars

\* C4 (exactly once): after a tick has read everything, with one instance whose asset
\* resolves, the live tiles are exactly one per occupied cell of every (finite layer,
\* bound tileset) pair of the current asset.
C4_OneTilePerCell ==
    (/\ Len(instances) = 1
     /\ map_events = <<>>
     /\ ~instances[1].added
     /\ maps[Handle(1)] # None)
    => LET tiled_map == maps[Handle(1)][1]
           TilesOf(li, ts, c) ==
               {t \in Tiles(world) :
                   /\ world[t].position = <<c[1], mapped_y(tiled_map.map.height, c[2])>>
                   /\ world[world[t].tilemap_id].layer_index = li
                   /\ world[world[t].tilemap_id].texture = tiled_map.tilemap_textures[ts]}
       IN  /\ \A p \in Pairs(tiled_map) :
                  \A c \in MatchingCells(tiled_map, p[1], p[2]) :
                      Cardinality(TilesOf(p[1], p[2], c)) = 1
           /\ \A t \in Tiles(world) :
                  \E p \in Pairs(tiled_map) :
                      \E c \in MatchingCells(tiled_map, p[1], p[2]) :
                          t \in TilesOf(p[1], p[2], c)

\* The keys a rebuild from tiled_map registers: the finite layers, when some tileset
\* has a texture.
RegisteredKeys(tiled_map) ==
    IF DOMAIN tiled_map.tilemap_textures = {} THEN {} ELSE FiniteLayers(tiled_map)

\* C5 (registry replaced): after a rebuild the key set of the instance's registry is
\* exactly the set of keys that rebuild registered.
C5_RegistryReplaced ==
    [][TickStep =>
         \A k \in InstanceIdx :
             Rebuilt(k) =>
                 DOMAIN instances'[k].storage = RegisteredKeys(maps[Handle(k)][1])]_vars

\* C6 (one group per pair, no orphans): with one instance, only Single textures and
\* every live tile group held by the registry, after a rebuild every (layer, tileset)
\* pair with a matching cell has exactly one live tile group, and every live tile
\* group was spawned by that rebuild.
C6_OneGroupPerPair ==
    [][(/\ TickStep
        /\ NoRepeatedChange
        /\ Len(instances) = 1
        /\ Rebuilt(1)
        /\ Tilemaps(world) \subseteq RegistryEntities(1)
        /\ \A ts \in DOMAIN maps[Handle(1)][1].tilemap_textures :
               maps[Handle(1)][1].tilemap_textures[ts].kind = "Single")
       => LET tiled_map == maps[Handle(1)][1] IN
          /\ \A p \in Pairs(tiled_map) :
                 MatchingCells(tiled_map, p[1], p[2]) # {} =>
                     Cardinality({g \in Tilemaps(world') :
                                     /\ world'[g].layer_index = p[1]
                                     /\ world'[g].texture = tiled_map.tilemap_textures[p[2]]})
                         = 1
          /\ \A g \in Tilemaps(world') : g \notin DOMAIN world]_vars

\* C7 (registry reaches every group): after a tick that rebuilds each instance at
\* most once, every tile group spawned in that tick that holds a tile is a value of
\* some instance's registry.
C7_RegistryReferencesAllGroups ==
    [][(TickStep /\ NoRepeatedChange) =>
         \A g \in Tilemaps(world') \ DOMAIN world :
             DOMAIN world'[g].storage # {} =>
                 \E k \in InstanceIdx : \E key \in DOMAIN instances'[k].storage :
                     instances'[k].storage[key] = g]_vars

\* The structure of the groups of instance k: per registry key, the occupied cells
\* of the group with the texture index of the tile at each (-1 for a tile no longer
\* alive).
Structure(insts, w, k) ==
    [key \in DOMAIN insts[k].storage |->
        LET g == insts[k].storage[key] IN
        IF ~HasTileStorage(w, g) THEN {}
        ELSE {<<pos, IF w[g].storage[pos] \in DOMAIN w
                     THEN w[w[g].storage[pos]].texture_index ELSE -1>> :
                  pos \in DOMAIN w[g].storage}]

\* C9 (idempotence): a run that rebuilds an instance from the asset its last build
\* was made from completes, and leaves the registry with the same key set and
\* groups of the same structure.
C9_RebuildIdempotent ==
    [][(TickStep \/ (~panicked /\ panicked')) =>
         \A k \in InstanceIdx :
             (Rebuilt(k) /\ built_from[k] = maps[Handle(k)]) =>
                 /\ ~panicked'
                 /\ Structure(instances', world', k) = Structure(instances, world, k)]_vars

\* Every tile the registries reach is alive, so no despawn of the run can panic.
RegistryTilesAlive == \A k \in InstanceIdx : RegistryEntities(k) \subseteq DOMAIN world

\* Every occupied cell of an image collection tileset references a tile the tileset
\* defines.
CellsReferToDefinedTiles(tiled_map) ==
    \A li \in FiniteLayers(tiled_map) :
        \A c \in DOMAIN tiled_map.map.layers[li + 1].cells :
            LET cell == tiled_map.map.layers[li + 1].cells[c] IN
            (cell # None /\ tiled_map.map.tilesets[cell[1].tileset_index + 1].image = None) =>
                \E i \in 1..Len(tiled_map.map.tilesets[cell[1].tileset_index + 1].tiles) :
                    tiled_map.map.tilesets[cell[1].tileset_index + 1].tiles[i].id = cell[1].id

\* C11 (offset lookup never misses): when the cells of every loaded document refer
\* to tiles their tileset defines, a run of process_loaded_maps whose despawns all
\* find their entity does not panic, i.e. every tile of a Vector texture that reaches
\* the texture index finds its entry in tile_image_offsets.
C11_OffsetLookupNeverMisses ==
    [][(/\ ~panicked
        /\ RegistryTilesAlive
        /\ \A id \in AssetIds : maps[id] # None => CellsReferToDefinedTiles(maps[id][1]))
       => ~panicked']_vars

\* Instance k leaves the step with a fresh build of tiled_map: every key the build
\* registers maps to an entity that did not exist before the step.
FreshlyBuilt(k, tiled_map) ==
    /\ RegisteredKeys(tiled_map) \subseteq DOMAIN instances'[k].storage
    /\ \A key \in RegisteredKeys(tiled_map) :
           /\ instances'[k].storage[key] \notin DOMAIN world
           /\ instances'[k].storage[key] \in Tilemaps(world')

\* C12 (a removal discards its own identity only): when the batch of a tick holds an
\* Added or Modified event for asset B before a Removed event for another asset A,
\* every instance referencing B, whose asset resolves, is rebuilt in that tick.
C12_RemovedKeepsOtherIdentities ==
    [][TickStep =>
         \A k \in InstanceIdx :
             (/\ maps[Handle(k)] # None
              /\ \E i, j \in 1..Len(map_events) :
                     /\ i < j
                     /\ map_events[i].type \in {"Added", "Modified"}
                     /\ map_events[i].id = Handle(k)
                     /\ map_events[j].type = "Removed"
                     /\ map_events[j].id # Handle(k))
             => FreshlyBuilt(k, maps[Handle(k)][1])]_vars

\* No two live tile groups show the same layer with the same texture.
NoDuplicateGroups ==
    \A g1, g2 \in Tilemaps(world) :
        (world[g1].layer_index = world[g2].layer_index /\ world[g1].texture = world[g2].texture)
            => g1 = g2

\* C13 (old and new build never coexist): with one instance built once, after a tick
\* that rebuilds it once, no tile that was alive before the tick is alive together
\* with a tile spawned in the tick.
C13_OldAndNewTilesNeverCoexist ==
    [][(/\ TickStep
        /\ NoRepeatedChange
        /\ Len(instances) = 1
        /\ NoDuplicateGroups
        /\ Rebuilt(1))
       => (Tiles(world') \ DOMAIN world = {} \/ Tiles(world) \cap DOMAIN world' = {})]_vars

\* C14 (every instance gets built): in a tick, a new instance whose asset resolves is
\* built; an unbuilt instance whose asset resolves and has its Added event in the
\* batch is built; an unbuilt instance whose asset does not resolve, or that is
\* neither new nor named by an Added or Modified event, stays unbuilt; and a single
\* instance that was never built has no entities.
C14_EveryInstanceGetsBuilt ==
    [][TickStep =>
         /\ \A k \in InstanceIdx :
                /\ (instances[k].added /\ maps[Handle(k)] # None)
                       => FreshlyBuilt(k, maps[Handle(k)][1])
                /\ (~Built(k) /\ HasEvent("Added", Handle(k)) /\ maps[Handle(k)] # None)
                       => FreshlyBuilt(k, maps[Handle(k)][1])
                /\ (~Built(k) /\ maps[Handle(k)] = None)
                       => DOMAIN instances'[k].storage = {}
                /\ (/\ ~Built(k)
                    /\ ~instances[k].added
                    /\ ~HasEvent("Added", Handle(k))
                    /\ ~HasEvent("Modified", Handle(k)))
                       => DOMAIN instances'[k].storage = {}
         /\ (Len(instances) = 1 /\ built_from'[1] = None)
                => (world' = EmptyMap /\ DOMAIN instances'[1].storage = {})]_vars

\* C15 (a cell contributes to exactly one group): in a tick that builds the one
\* instance once, every (finite layer, bound tileset) pair gets exactly one new group;
\* every occupied cell of the pair has exactly one new tile at its position in that
\* layer, held by the storage of the pair's group and by no other new group at that
\* position; and every tile a new group stores comes from a cell of the group's own
\* tileset.
C15_CellInExactlyOneGroup ==
    [][(/\ TickStep
        /\ NoRepeatedChange
        /\ Len(instances) = 1
        /\ Rebuilt(1))
       => LET tiled_map == maps[Handle(1)][1]
              height == tiled_map.map.height
              NewGroups == Tilemaps(world') \ DOMAIN world
              NewTiles == Tiles(world') \ DOMAIN world
              GroupsOf(li, ts) ==
                  {g \in NewGroups : /\ world'[g].layer_index = li
                                     /\ world'[g].texture = tiled_map.tilemap_textures[ts]}
          IN  /\ \A p \in Pairs(tiled_map) :
                     /\ Cardinality(GroupsOf(p[1], p[2])) = 1
                     /\ \A c \in MatchingCells(tiled_map, p[1], p[2]) :
                            LET pos == <<c[1], height - 1 - c[2]>>
                                at == {t \in NewTiles :
                                          /\ world'[t].position = pos
                                          /\ world'[world'[t].tilemap_id].layer_index = p[1]}
                            IN  /\ Cardinality(at) = 1
                                /\ \A t \in at :
                                       /\ world'[t].tilemap_id \in GroupsOf(p[1], p[2])
                                       /\ \A g \in NewGroups :
                                              (/\ world'[g].layer_index = p[1]
                                               /\ pos \in DOMAIN world'[g].storage)
                                                  => (/\ g = world'[t].tilemap_id
                                                      /\ world'[g].storage[pos] = t)
              /\ \A g \in NewGroups : \A pos \in DOMAIN world'[g].storage :
                     \E ts \in DOMAIN tiled_map.tilemap_textures :
                         /\ tiled_map.tilemap_textures[ts] = world'[g].texture
                         /\ <<pos[1], height - 1 - pos[2]>>
                                \in MatchingCells(tiled_map, world'[g].layer_index, ts)]_vars

\* A map built once whose one layer draws on two tilesets: two groups of that layer,
\* each holding a tile, and no other entities but their tiles.
C15_Witness ==
    /\ Len(instances) = 1
    /\ last_changed = <<1>>
    /\ \E g1, g2 \in Tilemaps(world) :
           /\ g1 # g2
           /\ world[g1].layer_index = world[g2].layer_index
           /\ world[g1].texture # world[g2].texture
           /\ DOMAIN world[g1].storage # {}
           /\ DOMAIN world[g2].storage # {}
           /\ Tilemaps(world) = {g1, g2}

\* Asset identity id is in the change set of the run in the current state.
InChangeSet(id) ==
    \E i \in 1..Len(ChangedMaps(map_events, instances)) :
        ChangedMaps(map_events, instances)[i] = id

\* C16 (no rebuild against a missing asset): in a tick, an instance whose asset does
\* not resolve keeps its registry as it was, and when no instance in the change set
\* has an asset that resolves, the tick spawns nothing: the entities and the allocator
\* are as before.
C16_NoRebuildOfMissingAsset ==
    [][TickStep =>
         /\ \A k \in InstanceIdx :
                maps[Handle(k)] = None => instances'[k].storage = instances[k].storage
         /\ (\A k \in InstanceIdx : ~Rebuilt(k))
                => (world' = world /\ next_entity' = next_entity)]_vars

\* After a tick whose change set named the asset of the one, new, instance also by an
\* event, while the asset did not resolve: it was added and removed before the run.
C16_Witness ==
    /\ Len(instances) = 1
    /\ ~instances[1].added
    /\ maps[Handle(1)] = None
    /\ map_events = <<>>
    /\ last_changed = <<Handle(1), Handle(1)>>
    /\ built_from[1] = None
    /\ world = EmptyMap

\* C17 (frame): a tick never changes a stored asset; an instance whose asset identity
\* is not in the change set keeps its registry and every entity the registry reaches
\* as it was; and every entity that no registry of an instance in the change set
\* reaches is alive and unchanged after the tick.
C17_Frame ==
    [][TickStep =>
         /\ maps' = maps
         /\ \A k \in InstanceIdx :
                ~InChangeSet(Handle(k)) =>
                    /\ instances'[k].storage = instances[k].storage
                    /\ \A e \in RegistryEntities(k) \cap DOMAIN world :
                           e \in DOMAIN world' /\ world'[e] = world[e]
         /\ \A e \in DOMAIN world :
                (\A k \in InstanceIdx : InChangeSet(Handle(k)) => e \notin RegistryEntities(k))
                    => (e \in DOMAIN world' /\ world'[e] = world[e])]_vars

\* After a tick that rebuilt the second instance while the first, built earlier from
\* another asset, was not in the change set.
C17_Witness ==
    /\ Len(instances) = 2
    /\ Handle(1) # Handle(2)
    /\ Built(1)
    /\ RegistryEntities(1) \subseteq DOMAIN world
    /\ \A i \in 1..Len(last_changed) : last_changed[i] # Handle(1)
    /\ \E i \in 1..Len(last_changed) : last_changed[i] = Handle(2)
    /\ Built(2)
    /\ built_from[2] = maps[Handle(2)]
    /\ map_events = <<>>

\* C18 (load failure): load returns no asset when the byte read fails or the parser
\* rejects the bytes; and while the last load of an asset identity has failed, the
\* identity resolves to nothing, no event names it, every instance referencing it has
\* an empty registry, and with no other instance there are no entities.
C18_LoadFailure ==
    /\ \A read_ok, parse_ok \in BOOLEAN : \A map \in Docs :
           ~(read_ok /\ parse_ok) => load(LoadInput(read_ok, parse_ok, map), atlas) = None
    /\ \A id \in load_failed :
           /\ maps[id] = None
           /\ \A i \in 1..Len(map_events) : map_events[i].id # id
           /\ \A k \in InstanceIdx : Handle(k) = id => DOMAIN instances[k].storage = {}
           /\ (\A k \in InstanceIdx : Handle(k) = id) => world = EmptyMap

\* The load of asset 1 has failed and a tick has run over an instance referencing it.
C18_Witness ==
    /\ 1 \in load_failed
    /\ Len(instances) = 1
    /\ Handle(1) = 1
    /\ ~instances[1].added
    /\ last_changed = <<1>>
    /\ ticks > 0

\* The image collection tilesets of tiled_map, and the positions in tiles() order of
\* the tiles of tileset ts that carry an image.
Collections(tiled_map) ==
    {ts \in 0..(Len(tiled_map.map.tilesets) - 1) : tiled_map.map.tilesets[ts + 1].image = None}
WithImage(tiled_map, ts) ==
    {i \in 1..Len(tiled_map.map.tilesets[ts + 1].tiles) :
        tiled_map.map.tilesets[ts + 1].tiles[i].image # None}
OffsetOf(tiled_map, ts, i) ==
    tiled_map.tile_image_offsets[<<ts, tiled_map.map.tilesets[ts + 1].tiles[i].id>>]

\* C19 as stated (offsets ascend with the tile id): in a build without the atlas
\* feature, of two tiles with images of one image collection tileset the one with the
\* smaller id has the smaller offset.
C19_OffsetsAscendWithTileId ==
    \A id \in AssetIds : (~atlas /\ maps[id] # None) =>
        \A ts \in Collections(maps[id][1]) :
            \A i, j \in WithImage(maps[id][1], ts) :
                maps[id][1].map.tilesets[ts + 1].tiles[i].id
                    < maps[id][1].map.tilesets[ts + 1].tiles[j].id
                => OffsetOf(maps[id][1], ts, i) < OffsetOf(maps[id][1], ts, j)

\* C19 (amended: offsets ascend in the order tiles() yields): in a build without the
\* atlas feature, of two tiles with images of one image collection tileset the one
\* that tileset.tiles() yields first has the smaller offset, whatever their ids.
C19_OffsetsAscendInIterationOrder ==
    \A id \in AssetIds : (~atlas /\ maps[id] # None) =>
        \A ts \in Collections(maps[id][1]) :
            \A i, j \in WithImage(maps[id][1], ts) :
                i < j => OffsetOf(maps[id][1], ts, i) < OffsetOf(maps[id][1], ts, j)

\* A loaded image collection tileset whose tiles() yields a tile with an image before
\* another with an image and a smaller id.
C19_Witness ==
    /\ ~atlas
    /\ maps[1] # None
    /\ \E ts \in Collections(maps[1][1]) :
           \E i, j \in WithImage(maps[1][1], ts) :
               /\ i < j
               /\ maps[1][1].map.tilesets[ts + 1].tiles[i].id
                      > maps[1][1].map.tilesets[ts + 1].tiles[j].id
               /\ OffsetOf(maps[1][1], ts, i) = 0
               /\ OffsetOf(maps[1][1], ts, j) = 1

====
